---- MODULE Spec2Model ----
(***************************************************************************)
(* A model of lua-parser: the tokenizer (src/src/tokenizer.rs) and the     *)
(* recursive-descent parser (src/src/parser.rs) over the syntax tree of    *)
(* src/src/ast.rs.                                                         *)
(*                                                                         *)
(* A source text is a sequence of characters, each character a string.     *)
(* Every character is one byte of UTF-8 except NBSP (U+00A0), which the    *)
(* regex crate's Unicode \s matches and which is two bytes long.           *)
(***************************************************************************)
EXTENDS Integers, Sequences, FiniteSets, TLC

VARIABLES source, current, tokens, current_line, current_column,
          tok_result, parse_input, parse_result, pc

vars == <<source, current, tokens, current_line, current_column,
          tok_result, parse_input, parse_result, pc>>

----------------------------------------------------------------------------
(* Bounds of the model.                                                    *)

MaxLen == 4

MaxAffix == 2

MaxNumLen == 5

MaxTokens == 4

MaxExprTokens == 5

----------------------------------------------------------------------------
(* Characters and strings.                                                 *)

NBSP == "NBSP"

Lower == {"a","b","c","d","e","f","g","h","i","j","k","l","m",
          "n","o","p","q","r","s","t","u","v","w","x","y","z"}

Upper == {"A","B","C","D","E","F","G","H","I","J","K","L","M",
          "N","O","P","Q","R","S","T","U","V","W","X","Y","Z"}

Digit == {"0","1","2","3","4","5","6","7","8","9"}

HexDigit == Digit \cup {"a","b","c","d","e","f","A","B","C","D","E","F"}

IdStart == {"_"} \cup Lower \cup Upper

IdChar == IdStart \cup Digit

WhitespaceChar == {" ", "\n", "\t", NBSP}

OperatorChar == {"=", "+", ",", "{", "}", "[", "]"}

Take(s, n) == SubSeq(s, 1, n)

Drop(s, n) == SubSeq(s, n + 1, Len(s))

\* The number of leading characters of s that are in the class C.
RunLength(s, C) ==
    IF \E i \in 1..Len(s) : s[i] \notin C
    THEN (CHOOSE i \in 1..Len(s) :
              s[i] \notin C /\ \A j \in 1..(i - 1) : s[j] \in C) - 1
    ELSE Len(s)

\* str::len(): the length of a string slice in bytes.
RECURSIVE ByteLen(_)
ByteLen(s) ==
    IF s = <<>> THEN 0
    ELSE (IF Head(s) = NBSP THEN 2 ELSE 1) + ByteLen(Tail(s))

None == [some |-> FALSE]

Some(v) == [some |-> TRUE, value |-> v]

----------------------------------------------------------------------------
(* The patterns: each gives the length in characters of the match of the   *)
(* pattern's capture at the start of s, 0 when the pattern does not match  *)
(* (no pattern matches the empty string).                                  *)

KEYWORDS == { <<"l","o","c","a","l">>, <<"f","u","n","c","t","i","o","n">>,
              <<"w","h","i","l","e">>, <<"r","e","p","e","a","t">>,
              <<"u","n","t","i","l">>, <<"f","o","r">>,
              <<"d","o">>, <<"e","n","d">> }

\* ^([_a-zA-Z][_a-zA-Z0-9]*)
PATTERN_IDENTIFIER(s) ==
    IF s # <<>> /\ s[1] \in IdStart
    THEN 1 + RunLength(Tail(s), IdChar)
    ELSE 0

\* PATTERN_OPERATOR with `-` among the operators.
PATTERN_OPERATOR_WithMinus(s) ==
    IF s # <<>> /\ s[1] \in OperatorChar \cup {"-"} THEN 1 ELSE 0

\* ^(=|\+|,|\{|\}|\[|\])
PATTERN_OPERATOR(s) ==
    IF s # <<>> /\ s[1] \in OperatorChar THEN 1 ELSE 0

\* (?:[eE]-?\d+)? at the start of s: the length it adds to the match.
ExponentLength(s) ==
    IF s # <<>> /\ s[1] \in {"e", "E"}
    THEN LET r == Tail(s)
             sign == IF r # <<>> /\ r[1] = "-" THEN 1 ELSE 0
             digits == RunLength(Drop(r, sign), Digit)
         IN IF digits > 0 THEN 1 + sign + digits ELSE 0
    ELSE 0

\* ^((-?0x[A-Fa-f\d]+)|(-?(?:(?:\d*\.\d+)|(\d+))(?:[eE]-?\d+)?)), the
\* alternatives in the order the regex prefers them.
PATTERN_NUMBER_LITERAL(s) ==
    LET sign == IF s # <<>> /\ s[1] = "-" THEN 1 ELSE 0
        r == Drop(s, sign)
        hex == IF Len(r) >= 2 /\ r[1] = "0" /\ r[2] = "x"
               THEN RunLength(Drop(r, 2), HexDigit) ELSE 0
        int == RunLength(r, Digit)
        afterInt == Drop(r, int)
        frac == IF afterInt # <<>> /\ afterInt[1] = "."
                THEN RunLength(Tail(afterInt), Digit) ELSE 0
    IN IF hex > 0 THEN sign + 2 + hex
       ELSE IF frac > 0
            THEN sign + int + 1 + frac
                 + ExponentLength(Drop(r, int + 1 + frac))
       ELSE IF int > 0
            THEN sign + int + ExponentLength(afterInt)
       ELSE 0

\* ^(\()
PATTERN_OPEN_PAREN(s) == IF s # <<>> /\ s[1] = "(" THEN 1 ELSE 0

\* ^(\))
PATTERN_CLOSE_PAREN(s) == IF s # <<>> /\ s[1] = ")" THEN 1 ELSE 0

\* ^\s+
PATTERN_WHITESPACE(s) == RunLength(s, WhitespaceChar)

\* \n([^\n]+)$ : the capture, when the text has a newline that is followed
\* by one character or more up to the end of the text, none of them a newline.
PATTERN_CHARS_AFTER_NEWLINE(s) ==
    IF \E i \in 1..Len(s) : s[i] = "\n" /\ i < Len(s)
                            /\ \A j \in (i + 1)..Len(s) : s[j] # "\n"
    THEN LET i == CHOOSE i \in 1..Len(s) :
                      s[i] = "\n" /\ i < Len(s)
                      /\ \A j \in (i + 1)..Len(s) : s[j] # "\n"
         IN Some(Drop(s, i))
    ELSE None

----------------------------------------------------------------------------
(* The tokenizer.                                                          *)

\* IdentifierKind with a reserved word recognised at the start of the match.
IdentifierKind_Prefix(s) ==
    IF \E n \in 1..Len(s) : Take(s, n) \in KEYWORDS
    THEN [tag |-> "Keyword",
          s |-> Take(s, CHOOSE n \in 1..Len(s) : Take(s, n) \in KEYWORDS)]
    ELSE IF s = <<"t","r","u","e">> THEN [tag |-> "BoolLiteral", b |-> TRUE]
    ELSE IF s = <<"f","a","l","s","e">> THEN [tag |-> "BoolLiteral", b |-> FALSE]
    ELSE IF s = <<"n","i","l">> THEN [tag |-> "NilLiteral"]
    ELSE [tag |-> "Identifier", s |-> s]

\* The closure tokenize hands to try_advance for the identifier pattern.
IdentifierKind(s) ==
    IF s \in KEYWORDS THEN [tag |-> "Keyword", s |-> s]
    ELSE IF s = <<"t","r","u","e">> THEN [tag |-> "BoolLiteral", b |-> TRUE]
    ELSE IF s = <<"f","a","l","s","e">> THEN [tag |-> "BoolLiteral", b |-> FALSE]
    ELSE IF s = <<"n","i","l">> THEN [tag |-> "NilLiteral"]
    ELSE [tag |-> "Identifier", s |-> s]

OperatorKind(s) == [tag |-> "Operator", s |-> s]

NumberKind(s) == [tag |-> "NumberLiteral", s |-> s]

OpenParenKind(s) == [tag |-> "OpenParen"]

CloseParenKind(s) == [tag |-> "CloseParen"]

\* Regex::captures / Regex::find of a pattern at the start of s: the length
\* of the match, 0 when there is none.
Match(pattern, s) ==
    CASE pattern = "PATTERN_IDENTIFIER" -> PATTERN_IDENTIFIER(s)
      [] pattern = "PATTERN_OPERATOR" -> PATTERN_OPERATOR(s)
      [] pattern = "PATTERN_NUMBER_LITERAL" -> PATTERN_NUMBER_LITERAL(s)
      [] pattern = "PATTERN_OPEN_PAREN" -> PATTERN_OPEN_PAREN(s)
      [] pattern = "PATTERN_CLOSE_PAREN" -> PATTERN_CLOSE_PAREN(s)
      [] pattern = "PATTERN_WHITESPACE" -> PATTERN_WHITESPACE(s)

\* The call of the closure try_advance is given.
Tokenizer(tokenizer, contents) ==
    CASE tokenizer = "IdentifierKind" -> IdentifierKind(contents)
      [] tokenizer = "OperatorKind" -> OperatorKind(contents)
      [] tokenizer = "NumberKind" -> NumberKind(contents)
      [] tokenizer = "OpenParenKind" -> OpenParenKind(contents)
      [] tokenizer = "CloseParenKind" -> CloseParenKind(contents)

try_advance(src, pattern, tokenizer) ==
    LET n == Match(pattern, src)
    IN IF n > 0
       THEN Some([new_source |-> Drop(src, n),
                  eaten_str |-> Take(src, n),
                  matched_kind |-> Tokenizer(tokenizer, Take(src, n))])
       ELSE None

eat(src, pattern) ==
    LET n == Match(pattern, src)
    IN IF n > 0
       THEN [rest |-> Drop(src, n), matched |-> Some(Take(src, n))]
       ELSE [rest |-> src, matched |-> None]

get_new_position(eaten_str, line, column) ==
    LET lines_eaten == Cardinality({i \in 1..Len(eaten_str) : eaten_str[i] = "\n"})
        captures == PATTERN_CHARS_AFTER_NEWLINE(eaten_str)
        col == IF lines_eaten > 0
               THEN (IF captures.some THEN ByteLen(captures.value) + 1 ELSE 1)
               ELSE column + ByteLen(eaten_str)
    IN [line |-> line + lines_eaten, column |-> col]

or_else(a, b) == IF a.some THEN a ELSE b

\* The chain of try_advance calls of one iteration of tokenize's loop.
MatchToken(src) ==
    or_else(try_advance(src, "PATTERN_IDENTIFIER", "IdentifierKind"),
    or_else(try_advance(src, "PATTERN_OPERATOR", "OperatorKind"),
    or_else(try_advance(src, "PATTERN_NUMBER_LITERAL", "NumberKind"),
    or_else(try_advance(src, "PATTERN_OPEN_PAREN", "OpenParenKind"),
            try_advance(src, "PATTERN_CLOSE_PAREN", "CloseParenKind")))))

\* One iteration of tokenize's loop: a token is pushed, or the loop breaks.
TokenizeLoop ==
    /\ pc = "loop"
    /\ LET e == eat(current, "PATTERN_WHITESPACE")
           whitespace == IF e.matched.some THEN e.matched.value ELSE <<>>
           at == get_new_position(whitespace, current_line, current_column)
           result == MatchToken(e.rest)
       IN IF result.some
          THEN LET after == get_new_position(result.value.eaten_str,
                                             at.line, at.column)
               IN /\ current' = result.value.new_source
                  /\ tokens' = Append(tokens,
                                 [whitespace |-> whitespace,
                                  kind |-> result.value.matched_kind,
                                  line |-> at.line,
                                  column |-> at.column])
                  /\ current_line' = after.line
                  /\ current_column' = after.column
                  /\ pc' = "loop"
          ELSE /\ current' = e.rest
               /\ current_line' = at.line
               /\ current_column' = at.column
               /\ pc' = "break"
               /\ UNCHANGED tokens
    /\ UNCHANGED <<source, tok_result, parse_input, parse_result>>

\* After the loop: Ok(tokens) or Err(UnknownSequence).
TokenizeReturn ==
    /\ pc = "break"
    /\ tok_result' =
          IF current = <<>>
          THEN [status |-> "Ok", tokens |-> tokens]
          ELSE [status |-> "UnknownSequence", remainder |-> current,
                line |-> current_line, column |-> current_column]
    /\ pc' = "tokenized"
    /\ UNCHANGED <<source, current, tokens, current_line, current_column,
                   parse_input, parse_result>>

----------------------------------------------------------------------------
(* The parser's cursor and outcomes (parser_core).                         *)

\* ParseState::new
NewParseState(toks) == [tokens |-> toks, position |-> 0]

\* ParseState::peek: the token at the cursor, if any.
peek(state) ==
    IF state.position < Len(state.tokens)
    THEN Some(state.tokens[state.position + 1])
    ELSE None

\* ParseState::advance
advance(state, n) == [state EXCEPT !.position = state.position + n]

Ok(state, value) == [ok |-> TRUE, state |-> state, value |-> value]

\* ParseAbort::NoMatch: the soft failure.
NoMatch == [ok |-> FALSE, abort |-> "NoMatch"]

\* ParseAbort::Error(message): the hard failure.
Error(message) == [ok |-> FALSE, abort |-> "Error", message |-> message]

Sym(name) == [kind |-> "Symbol", symbol |-> name]

\* A rule that takes no argument, and ParseSymbol(symbol).
Rule(name) == [rule |-> name]

SymbolRule(name) == [rule |-> "ParseSymbol", symbol |-> name]

----------------------------------------------------------------------------
(* The token rules.                                                        *)

ParseToken(kind, state) ==
    LET t == peek(state)
    IN IF t.some
       THEN (IF t.value = kind THEN Ok(advance(state, 1), t.value) ELSE NoMatch)
       ELSE NoMatch

ParseNumber(state) ==
    LET t == peek(state)
    IN IF t.some /\ t.value.kind = "NumberLiteral"
       THEN Ok(advance(state, 1), t.value.value)
       ELSE NoMatch

ParseIdentifier(state) ==
    LET t == peek(state)
    IN IF t.some /\ t.value.kind = "Identifier"
       THEN Ok(advance(state, 1), t.value.name)
       ELSE NoMatch

ParseSymbol(symbol, state) ==
    LET r == ParseToken(Sym(symbol), state)
    IN IF r.ok THEN Ok(r.state, "unit") ELSE r

ParseUnaryOp(state) ==
    IF ParseSymbol("Minus", state).ok
    THEN Ok(ParseSymbol("Minus", state).state, "Negate")
    ELSE IF ParseSymbol("Hash", state).ok
    THEN Ok(ParseSymbol("Hash", state).state, "Length")
    ELSE IF ParseSymbol("Not", state).ok
    THEN Ok(ParseSymbol("Not", state).state, "BooleanNot")
    ELSE NoMatch

ParseBinaryOp(state) ==
    LET t == peek(state)
    IN IF t.some /\ t.value.kind = "Symbol"
       THEN CASE t.value.symbol = "Plus" -> Ok(advance(state, 1), "Add")
              [] t.value.symbol = "Minus" -> Ok(advance(state, 1), "Subtract")
              [] t.value.symbol = "Star" -> Ok(advance(state, 1), "Multiply")
              [] t.value.symbol = "Slash" -> Ok(advance(state, 1), "Divide")
              [] t.value.symbol = "Caret" -> Ok(advance(state, 1), "Exponent")
              [] t.value.symbol = "TwoDots" -> Ok(advance(state, 1), "Concat")
              [] OTHER -> NoMatch
       ELSE NoMatch

----------------------------------------------------------------------------
(* The combinators (parser_core) and the grammar rules, which call each    *)
(* other: parse[rule, state] is rule.parse(state), with parse the function *)
(* Parser defined after the rules.                                         *)

RECURSIVE ZeroOrMore(_, _, _), Or(_, _, _), DelimitedMore(_, _, _, _, _, _),
          FirstOf(_, _, _), Sequence(_, _, _, _), ElseIfBranches(_, _)

\* let (state, value) = rule.parse(state)?; for each of rules in turn: the
\* first failure is the failure of the caller, and values collects the
\* results.
Sequence(parse, rules, state, values) ==
    IF rules = <<>> THEN Ok(state, values)
    ELSE LET r == parse[Head(rules), state]
         IN IF r.ok
            THEN Sequence(parse, Tail(rules), r.state, Append(values, r.value))
            ELSE r

\* ZeroOrMore(rule): the results up to the first soft failure.
ZeroOrMore(parse, rule, state) ==
    LET r == parse[rule, state]
    IN IF r.ok
       THEN LET rest == ZeroOrMore(parse, rule, r.state)
            IN IF rest.ok THEN Ok(rest.state, <<r.value>> \o rest.value)
               ELSE rest
       ELSE IF r.abort = "NoMatch" THEN Ok(state, <<>>)
       ELSE r

\* Optional(rule): a soft failure becomes an absent value.
Optional(parse, rule, state) ==
    LET r == parse[rule, state]
    IN IF r.ok THEN Ok(r.state, Some(r.value))
       ELSE IF r.abort = "NoMatch" THEN Ok(state, None)
       ELSE r

\* Or(rules): the first rule that succeeds; a hard failure ends the search.
Or(parse, rules, state) ==
    IF rules = <<>> THEN NoMatch
    ELSE LET r == parse[Head(rules), state]
         IN IF r.ok THEN r
            ELSE IF r.abort = "NoMatch" THEN Or(parse, Tail(rules), state)
            ELSE r

\* The items of a delimited list after an item: state is the cursor after
\* the last item, values the items so far.
DelimitedMore(parse, item, delimiter, allow_trailing, state, values) ==
    LET d == parse[delimiter, state]
    IN IF d.ok
       THEN LET r == parse[item, d.state]
            IN IF r.ok
               THEN DelimitedMore(parse, item, delimiter, allow_trailing,
                                  r.state, Append(values, r.value))
               ELSE IF r.abort = "NoMatch"
               THEN (IF allow_trailing THEN Ok(d.state, values) ELSE NoMatch)
               ELSE r
       ELSE IF d.abort = "NoMatch" THEN Ok(state, values)
       ELSE d

\* DelimitedOneOrMore(item, delimiter): at least one item.
DelimitedOneOrMore(parse, item, delimiter, state) ==
    LET r == parse[item, state]
    IN IF r.ok
       THEN DelimitedMore(parse, item, delimiter, FALSE, r.state, <<r.value>>)
       ELSE r

\* DelimitedZeroOrMore(item, delimiter, allow_trailing): no item is a
\* success with an empty list.
DelimitedZeroOrMore(parse, item, delimiter, allow_trailing, state) ==
    LET r == parse[item, state]
    IN IF r.ok
       THEN DelimitedMore(parse, item, delimiter, allow_trailing, r.state, <<r.value>>)
       ELSE IF r.abort = "NoMatch" THEN Ok(state, <<>>)
       ELSE r

\* parse_first_of!: alternatives is a sequence of <<rule, constructor>>; the
\* first success wins and is wrapped in its constructor.
FirstOf(parse, alternatives, state) ==
    IF alternatives = <<>> THEN NoMatch
    ELSE LET r == parse[Head(alternatives)[1], state]
         IN IF r.ok
            THEN Ok(r.state, [tag |-> Head(alternatives)[2], value |-> r.value])
            ELSE IF r.abort = "NoMatch" THEN FirstOf(parse, Tail(alternatives), state)
            ELSE r


\* chunk ::= {stat}
ParseChunk(parse, state) ==
    LET r == ZeroOrMore(parse, Rule("ParseStatement"), state)
    IN IF r.ok THEN Ok(r.state, [statements |-> r.value]) ELSE r

\* ParseStatement committed to `local`: once ParseLocalAssignment has matched
\* `local`, no other alternative is tried.
ParseStatement_Committed(parse, state) ==
    IF parse[SymbolRule("Local"), state].ok
    THEN FirstOf(parse,
                 << <<Rule("ParseLocalAssignment"), "LocalAssignment">> >>,
                 state)
    ELSE FirstOf(parse,
            << <<Rule("ParseLocalAssignment"), "LocalAssignment">>,
               <<Rule("ParseFunctionCall"), "FunctionCall">>,
               <<Rule("ParseNumericFor"), "NumericFor">>,
               <<Rule("ParseIfStatement"), "IfStatement">>,
               <<Rule("ParseWhileLoop"), "WhileLoop">>,
               <<Rule("ParseRepeatLoop"), "RepeatLoop">>,
               <<Rule("ParseFunctionDeclaration"), "FunctionDeclaration">> >>,
            state)

\* ParseStatement with an assignment statement, Name `=` exp, tried first.
ParseStatement_WithAssignment(parse, state) ==
    LET r == Sequence(parse, <<Rule("ParseIdentifier"), SymbolRule("Equal"),
                               Rule("ParseExpression")>>, state, <<>>)
    IN IF r.ok
       THEN Ok(r.state, [tag |-> "Assignment",
                         value |-> [names |-> <<r.value[1]>>,
                                    values |-> <<r.value[3]>>]])
       ELSE FirstOf(parse,
            << <<Rule("ParseLocalAssignment"), "LocalAssignment">>,
               <<Rule("ParseFunctionCall"), "FunctionCall">>,
               <<Rule("ParseNumericFor"), "NumericFor">>,
               <<Rule("ParseIfStatement"), "IfStatement">>,
               <<Rule("ParseWhileLoop"), "WhileLoop">>,
               <<Rule("ParseRepeatLoop"), "RepeatLoop">>,
               <<Rule("ParseFunctionDeclaration"), "FunctionDeclaration">> >>,
            state)

ParseStatement(parse, state) ==
    FirstOf(parse,
            << <<Rule("ParseLocalAssignment"), "LocalAssignment">>,
               <<Rule("ParseFunctionCall"), "FunctionCall">>,
               <<Rule("ParseNumericFor"), "NumericFor">>,
               <<Rule("ParseIfStatement"), "IfStatement">>,
               <<Rule("ParseWhileLoop"), "WhileLoop">>,
               <<Rule("ParseRepeatLoop"), "RepeatLoop">>,
               <<Rule("ParseFunctionDeclaration"), "FunctionDeclaration">> >>,
            state)

\* ParseExpression with the right operand of a binary operator parsed as one
\* Value.
ParseExpression_RightValue(parse, state) ==
    LET u == parse[Rule("ParseUnaryOp"), state]
    IN IF u.ok
       THEN LET a == parse[Rule("ParseExpression"), u.state]
            IN IF a.ok
               THEN Ok(a.state, [tag |-> "UnaryOp",
                                 value |-> [operator |-> u.value,
                                            argument |-> a.value]])
               ELSE a
       ELSE LET l == parse[Rule("ParseValue"), state]
            IN IF ~l.ok THEN l
               ELSE LET o == parse[Rule("ParseBinaryOp"), l.state]
                    IN IF o.ok
                       THEN LET r == parse[Rule("ParseValue"), o.state]
                            IN IF r.ok
                               THEN Ok(r.state,
                                       [tag |-> "BinaryOp",
                                        value |-> [operator |-> o.value,
                                                   left |-> l.value,
                                                   right |-> r.value]])
                               ELSE r
                       ELSE Ok(l.state, l.value)

\* ParseExpression that succeeds, with no token consumed, where no Value is.
ParseExpression_EmptyValue(parse, state) ==
    LET u == parse[Rule("ParseUnaryOp"), state]
    IN IF u.ok
       THEN LET a == parse[Rule("ParseExpression"), u.state]
            IN IF a.ok
               THEN Ok(a.state, [tag |-> "UnaryOp",
                                 value |-> [operator |-> u.value,
                                            argument |-> a.value]])
               ELSE a
       ELSE LET l == parse[Rule("ParseValue"), state]
            IN IF ~l.ok THEN Ok(state, [tag |-> "Nil"])
               ELSE LET o == parse[Rule("ParseBinaryOp"), l.state]
                    IN IF o.ok
                       THEN LET r == parse[Rule("ParseExpression"), o.state]
                            IN IF r.ok
                               THEN Ok(r.state,
                                       [tag |-> "BinaryOp",
                                        value |-> [operator |-> o.value,
                                                   left |-> l.value,
                                                   right |-> r.value]])
                               ELSE r
                       ELSE Ok(l.state, l.value)

\* exp ::= unop exp | value [binop exp]
ParseExpression(parse, state) ==
    LET u == parse[Rule("ParseUnaryOp"), state]
    IN IF u.ok
       THEN LET a == parse[Rule("ParseExpression"), u.state]
            IN IF a.ok
               THEN Ok(a.state, [tag |-> "UnaryOp",
                                 value |-> [operator |-> u.value,
                                            argument |-> a.value]])
               ELSE a
       ELSE LET l == parse[Rule("ParseValue"), state]
            IN IF ~l.ok THEN l
               ELSE LET o == parse[Rule("ParseBinaryOp"), l.state]
                    IN IF o.ok
                       THEN LET r == parse[Rule("ParseExpression"), o.state]
                            IN IF r.ok
                               THEN Ok(r.state,
                                       [tag |-> "BinaryOp",
                                        value |-> [operator |-> o.value,
                                                   left |-> l.value,
                                                   right |-> r.value]])
                               ELSE r
                       ELSE Ok(l.state, l.value)

ParseParenExpression(parse, state) ==
    LET r == Sequence(parse, <<SymbolRule("LeftParen"), Rule("ParseExpression"),
                               SymbolRule("RightParen")>>, state, <<>>)
    IN IF ~r.ok THEN r ELSE Ok(r.state, r.value[2])

ParseValue(parse, state) ==
    FirstOf(parse, << <<Rule("ParseNumber"), "Number">>,
               <<Rule("ParseFunctionCall"), "FunctionCall">>,
               <<Rule("ParseIdentifier"), "Name">>,
               <<Rule("ParseTableLiteral"), "Table">>,
               <<Rule("ParseParenExpression"), "ParenExpression">> >>,
            state)

\* ParseLocalAssignment with a hard failure once `local` has matched and no
\* name follows.
ParseLocalAssignment_Escalating(parse, state) ==
    LET a == parse[SymbolRule("Local"), state]
    IN IF ~a.ok THEN a
       ELSE LET names == DelimitedOneOrMore(parse, Rule("ParseIdentifier"),
                                            SymbolRule("Comma"), a.state)
            IN IF ~names.ok THEN Error("expected a name after local")
               ELSE LET eq == parse[SymbolRule("Equal"), names.state]
                        expressions ==
                            IF eq.ok
                            THEN DelimitedOneOrMore(parse, Rule("ParseExpression"),
                                                    SymbolRule("Comma"), eq.state)
                            ELSE Ok(names.state, <<>>)
                    IN IF ~expressions.ok THEN expressions
                       ELSE Ok(expressions.state,
                               [names |-> names.value,
                                values |-> expressions.value])

\* local namelist [`=` explist]
ParseLocalAssignment(parse, state) ==
    LET a == parse[SymbolRule("Local"), state]
    IN IF ~a.ok THEN a
       ELSE LET names == DelimitedOneOrMore(parse, Rule("ParseIdentifier"),
                                            SymbolRule("Comma"), a.state)
            IN IF ~names.ok THEN names
               ELSE LET eq == parse[SymbolRule("Equal"), names.state]
                        expressions ==
                            IF eq.ok
                            THEN DelimitedOneOrMore(parse, Rule("ParseExpression"),
                                                    SymbolRule("Comma"), eq.state)
                            ELSE Ok(names.state, <<>>)
                    IN IF ~expressions.ok THEN expressions
                       ELSE Ok(expressions.state,
                               [names |-> names.value,
                                values |-> expressions.value])

\* ParseFunctionCall with a trailing `,` allowed in the argument list.
ParseFunctionCall_TrailingAllowed(parse, state) ==
    LET name == Sequence(parse, <<Rule("ParseIdentifier"),
                                  SymbolRule("LeftParen")>>, state, <<>>)
    IN IF ~name.ok THEN name
       ELSE LET expressions ==
                    DelimitedZeroOrMore(parse, Rule("ParseExpression"),
                                        SymbolRule("Comma"), TRUE, name.state)
            IN IF ~expressions.ok THEN expressions
               ELSE LET b == parse[SymbolRule("RightParen"), expressions.state]
                    IN IF ~b.ok THEN b
                       ELSE Ok(b.state,
                               [name_expression |->
                                    [tag |-> "Name", value |-> name.value[1]],
                                arguments |-> expressions.value])

\* functioncall ::= Name `(` explist `)`
ParseFunctionCall(parse, state) ==
    LET name == Sequence(parse, <<Rule("ParseIdentifier"),
                                  SymbolRule("LeftParen")>>, state, <<>>)
    IN IF ~name.ok THEN name
       ELSE LET expressions ==
                    DelimitedZeroOrMore(parse, Rule("ParseExpression"),
                                        SymbolRule("Comma"), FALSE, name.state)
            IN IF ~expressions.ok THEN expressions
               ELSE LET b == parse[SymbolRule("RightParen"), expressions.state]
                    IN IF ~b.ok THEN b
                       ELSE Ok(b.state,
                               [name_expression |->
                                    [tag |-> "Name", value |-> name.value[1]],
                                arguments |-> expressions.value])

\* ParseNumericForStep with a hard failure where neither `,` nor `do` is.
ParseNumericForStep_Escalating(parse, state) ==
    LET t == peek(state)
    IN IF t.some /\ t.value = Sym("Comma")
       THEN LET parsed_step == parse[Rule("ParseExpression"), advance(state, 1)]
            IN IF parsed_step.ok
               THEN Ok(parsed_step.state, Some(parsed_step.value))
               ELSE parsed_step
       ELSE IF t.some /\ t.value = Sym("Do")
       THEN Ok(state, None)
       ELSE Error("expected a step or do")

\* The step of a numeric for: `,` exp, or nothing when `do` is next.
ParseNumericForStep(parse, state) ==
    LET t == peek(state)
    IN IF t.some /\ t.value = Sym("Comma")
       THEN LET parsed_step == parse[Rule("ParseExpression"), advance(state, 1)]
            IN IF parsed_step.ok
               THEN Ok(parsed_step.state, Some(parsed_step.value))
               ELSE parsed_step
       ELSE IF t.some /\ t.value = Sym("Do")
       THEN Ok(state, None)
       ELSE NoMatch

\* for Name `=` exp `,` exp [`,` exp] do chunk end
ParseNumericFor(parse, state) ==
    LET head == Sequence(parse, <<SymbolRule("For"), Rule("ParseIdentifier"),
                                  SymbolRule("Equal"), Rule("ParseExpression"),
                                  SymbolRule("Comma"), Rule("ParseExpression")>>,
                         state, <<>>)
    IN IF ~head.ok THEN head
       ELSE LET step == ParseNumericForStep(parse, head.state)
    IN IF ~step.ok THEN step
       ELSE LET tail == Sequence(parse, <<SymbolRule("Do"), Rule("ParseChunk"),
                                          SymbolRule("End")>>, step.state, <<>>)
    IN IF ~tail.ok THEN tail
       ELSE Ok(tail.state, [var |-> head.value[2], start |-> head.value[4],
                            end |-> head.value[6], step |-> step.value,
                            body |-> tail.value[2]])

\* The loop of ParseIfStatement: the elseif branches from state on.  A
\* failure after an `elseif` is the failure of the whole rule.
ElseIfBranches(parse, state) ==
    LET a == parse[SymbolRule("ElseIf"), state]
    IN IF ~a.ok THEN Ok(state, <<>>)
       ELSE LET branch == Sequence(parse, <<Rule("ParseExpression"),
                                            SymbolRule("Then"),
                                            Rule("ParseChunk")>>, a.state, <<>>)
    IN IF ~branch.ok THEN branch
       ELSE LET rest == ElseIfBranches(parse, branch.state)
    IN IF ~rest.ok THEN rest
       ELSE Ok(rest.state,
               << <<branch.value[1], branch.value[3]>> >> \o rest.value)

\* The else branch of ParseIfStatement: `else` chunk, or nothing.
ElseBranch(parse, state) ==
    LET else == parse[SymbolRule("Else"), state]
    IN IF else.ok
       THEN LET body == parse[Rule("ParseChunk"), else.state]
            IN IF body.ok THEN Ok(body.state, Some(body.value)) ELSE body
       ELSE Ok(state, None)

\* if exp then chunk {elseif exp then chunk} [else chunk] end
ParseIfStatement(parse, state) ==
    LET head == Sequence(parse, <<SymbolRule("If"), Rule("ParseExpression"),
                                  SymbolRule("Then"), Rule("ParseChunk")>>,
                         state, <<>>)
    IN IF ~head.ok THEN head
       ELSE LET else_if_branches == ElseIfBranches(parse, head.state)
    IN IF ~else_if_branches.ok THEN else_if_branches
       ELSE LET else_branch == ElseBranch(parse, else_if_branches.state)
    IN IF ~else_branch.ok THEN else_branch
       ELSE LET e == parse[SymbolRule("End"), else_branch.state]
    IN IF ~e.ok THEN e
       ELSE Ok(e.state, [condition |-> head.value[2],
                         body |-> head.value[4],
                         else_if_branches |-> else_if_branches.value,
                         else_branch |-> else_branch.value])

\* while exp do chunk end
ParseWhileLoop(parse, state) ==
    LET r == Sequence(parse, <<SymbolRule("While"), Rule("ParseExpression"),
                               SymbolRule("Do"), Rule("ParseChunk"),
                               SymbolRule("End")>>, state, <<>>)
    IN IF ~r.ok THEN r
       ELSE Ok(r.state, [condition |-> r.value[2], body |-> r.value[4]])

\* repeat chunk until exp
ParseRepeatLoop(parse, state) ==
    LET r == Sequence(parse, <<SymbolRule("Repeat"), Rule("ParseChunk"),
                               SymbolRule("Until"), Rule("ParseExpression")>>,
                      state, <<>>)
    IN IF ~r.ok THEN r
       ELSE Ok(r.state, [condition |-> r.value[4], body |-> r.value[2]])

\* [local] function Name `(` namelist `)` chunk end
ParseFunctionDeclaration(parse, state) ==
    LET local == Optional(parse, SymbolRule("Local"), state)
    IN IF ~local.ok THEN local
       ELSE LET name == Sequence(parse, <<SymbolRule("Function"),
                                          Rule("ParseIdentifier"),
                                          SymbolRule("LeftParen")>>,
                                 local.state, <<>>)
    IN IF ~name.ok THEN name
       ELSE LET parameters == DelimitedZeroOrMore(parse, Rule("ParseIdentifier"),
                                                  SymbolRule("Comma"), FALSE,
                                                  name.state)
    IN IF ~parameters.ok THEN parameters
       ELSE LET body == Sequence(parse, <<SymbolRule("RightParen"),
                                          Rule("ParseChunk"),
                                          SymbolRule("End")>>,
                                 parameters.state, <<>>)
    IN IF ~body.ok THEN body
       ELSE Ok(body.state, [local |-> local.value.some,
                            name |-> name.value[2],
                            parameters |-> parameters.value,
                            body |-> body.value[2]])

\* A table key: an identifier, or `[` exp `]`.
ParseTableKey(parse, state) ==
    LET id == parse[Rule("ParseIdentifier"), state]
    IN IF id.ok THEN Ok(id.state, [tag |-> "Name", value |-> id.value])
       ELSE IF id.abort = "Error" THEN id
       ELSE LET lb == parse[SymbolRule("LeftBracket"), state]
    IN IF ~lb.ok THEN lb
       ELSE LET key == parse[Rule("ParseExpression"), lb.state]
    IN IF ~key.ok THEN key
       ELSE LET rb == parse[SymbolRule("RightBracket"), key.state]
    IN IF ~rb.ok THEN rb
       ELSE Ok(rb.state, [tag |-> "Expression", value |-> key.value])

\* An item of a table literal: [key `=`] exp; `=` is looked for only after
\* a key.
ParseTableValue(parse, state) ==
    LET key == Optional(parse, Rule("ParseTableKey"), state)
    IN IF ~key.ok THEN key
       ELSE LET eq == IF key.value.some
                      THEN parse[SymbolRule("Equal"), key.state]
                      ELSE Ok(key.state, "unit")
    IN IF ~eq.ok THEN eq
       ELSE LET value == parse[Rule("ParseExpression"), eq.state]
    IN IF ~value.ok THEN value
       ELSE Ok(value.state, [key |-> key.value, value |-> value.value])

\* `{` items separated by `,` or `;`, a trailing separator allowed, `}`
ParseTableLiteral(parse, state) ==
    LET lb == parse[SymbolRule("LeftBrace"), state]
    IN IF ~lb.ok THEN lb
       ELSE LET items ==
                DelimitedZeroOrMore(parse, 
                    Rule("ParseTableValue"),
                    [rule |-> "Or",
                     rules |-> <<SymbolRule("Comma"), SymbolRule("Semicolon")>>],
                    TRUE, lb.state)
    IN IF ~items.ok THEN items
       ELSE LET rb == parse[SymbolRule("RightBrace"), items.state]
    IN IF ~rb.ok THEN rb
       ELSE Ok(rb.state, [items |-> items.value])

\* Parser::parse of each rule (define_parser!).
Parse(parse, rule, state) ==
    CASE rule.rule = "ParseSymbol" -> ParseSymbol(rule.symbol, state)
      [] rule.rule = "Or" -> Or(parse, rule.rules, state)
      [] rule.rule = "ParseNumber" -> ParseNumber(state)
      [] rule.rule = "ParseIdentifier" -> ParseIdentifier(state)
      [] rule.rule = "ParseUnaryOp" -> ParseUnaryOp(state)
      [] rule.rule = "ParseBinaryOp" -> ParseBinaryOp(state)
      [] rule.rule = "ParseChunk" -> ParseChunk(parse, state)
      [] rule.rule = "ParseStatement" -> ParseStatement(parse, state)
      [] rule.rule = "ParseExpression" -> ParseExpression(parse, state)
      [] rule.rule = "ParseParenExpression" -> ParseParenExpression(parse, state)
      [] rule.rule = "ParseValue" -> ParseValue(parse, state)
      [] rule.rule = "ParseLocalAssignment" -> ParseLocalAssignment(parse, state)
      [] rule.rule = "ParseFunctionCall" -> ParseFunctionCall(parse, state)
      [] rule.rule = "ParseNumericFor" -> ParseNumericFor(parse, state)
      [] rule.rule = "ParseIfStatement" -> ParseIfStatement(parse, state)
      [] rule.rule = "ParseWhileLoop" -> ParseWhileLoop(parse, state)
      [] rule.rule = "ParseRepeatLoop" -> ParseRepeatLoop(parse, state)
      [] rule.rule = "ParseFunctionDeclaration" -> ParseFunctionDeclaration(parse, state)
      [] rule.rule = "ParseTableKey" -> ParseTableKey(parse, state)
      [] rule.rule = "ParseTableValue" -> ParseTableValue(parse, state)
      [] rule.rule = "ParseTableLiteral" -> ParseTableLiteral(parse, state)

\* The tokens, the cursors and the rules that Parser::parse is applied to.
Token ==
    [kind : {"Symbol"}, symbol : STRING]
    \cup [kind : {"Identifier"}, name : Seq(STRING)]
    \cup [kind : {"NumberLiteral"}, value : Seq(STRING)]
    \cup [kind : {"BoolLiteral"}, b : BOOLEAN]
    \cup [kind : {"NilLiteral"}]

ParseState == [tokens : Seq(Token), position : Nat]

Parsers ==
    [rule : STRING]
    \cup [rule : STRING, symbol : STRING]
    \cup [rule : STRING, rules : Seq([rule : STRING, symbol : STRING])]

\* The parsers: Parser[rule, state] is rule.parse(state), each rule calling
\* the others through it.
Parser ==
    LET parse[rule \in Parsers, state \in ParseState] ==
            Parse(parse, rule, state)
    IN parse

\* parse_from_tokens without the look at what is left.
parse_from_tokens_NoLeftoverCheck(toks) ==
    LET r == ParseChunk(Parser, NewParseState(toks))
    IN IF ~r.ok
       THEN (IF r.abort = "NoMatch"
             THEN [status |-> "Err", message |-> "No error reported",
                   token |-> None]
             ELSE [status |-> "Err", message |-> r.message, token |-> None])
       ELSE [status |-> "Ok", chunk |-> r.value]

\* The entry point: a Chunk, then nothing may be left.
parse_from_tokens(toks) ==
    LET r == ParseChunk(Parser, NewParseState(toks))
    IN IF ~r.ok
       THEN (IF r.abort = "NoMatch"
             THEN [status |-> "Err", message |-> "No error reported",
                   token |-> None]
             ELSE [status |-> "Err", message |-> r.message, token |-> None])
       ELSE IF peek(r.state).some
       THEN [status |-> "Err",
             message |-> "A token was left at the end of the stream",
             token |-> peek(r.state)]
       ELSE [status |-> "Ok", chunk |-> r.value]

----------------------------------------------------------------------------
(* From the tokenizer's tokens to the parser's: the parser matches         *)
(* TokenKind::Symbol(Symbol), one Symbol per reserved word, operator and   *)
(* delimiter.                                                              *)

SymbolText ==
    << << <<"l","o","c","a","l">>, "Local" >>,
       << <<"f","u","n","c","t","i","o","n">>, "Function" >>,
       << <<"w","h","i","l","e">>, "While" >>,
       << <<"r","e","p","e","a","t">>, "Repeat" >>,
       << <<"u","n","t","i","l">>, "Until" >>,
       << <<"f","o","r">>, "For" >>,
       << <<"d","o">>, "Do" >>,
       << <<"e","n","d">>, "End" >>,
       << <<"i","f">>, "If" >>,
       << <<"t","h","e","n">>, "Then" >>,
       << <<"e","l","s","e","i","f">>, "ElseIf" >>,
       << <<"e","l","s","e">>, "Else" >>,
       << <<"n","o","t">>, "Not" >>,
       << <<"=">>, "Equal" >>,
       << <<"+">>, "Plus" >>,
       << <<",">>, "Comma" >>,
       << <<"{">>, "LeftBrace" >>,
       << <<"}">>, "RightBrace" >>,
       << <<"[">>, "LeftBracket" >>,
       << <<"]">>, "RightBracket" >> >>

IsSymbolText(s) == \E i \in 1..Len(SymbolText) : SymbolText[i][1] = s

SymbolOf(s) == SymbolText[CHOOSE i \in 1..Len(SymbolText) : SymbolText[i][1] = s][2]

ToParserToken(t) ==
    CASE t.kind.tag \in {"Keyword", "Operator", "Identifier"} ->
             IF IsSymbolText(t.kind.s) THEN Sym(SymbolOf(t.kind.s))
             ELSE [kind |-> "Identifier", name |-> t.kind.s]
      [] t.kind.tag = "NumberLiteral" ->
             [kind |-> "NumberLiteral", value |-> t.kind.s]
      [] t.kind.tag = "BoolLiteral" -> [kind |-> "BoolLiteral", b |-> t.kind.b]
      [] t.kind.tag = "NilLiteral" -> [kind |-> "NilLiteral"]
      [] t.kind.tag = "OpenParen" -> Sym("LeftParen")
      [] t.kind.tag = "CloseParen" -> Sym("RightParen")

ToParserTokens(toks) == [i \in 1..Len(toks) |-> ToParserToken(toks[i])]

\* parse(tokenize(source)): the tokens of a source that tokenized are parsed.
ParseSource ==
    /\ pc = "tokenized"
    /\ tok_result.status = "Ok"
    /\ parse_input' = ToParserTokens(tok_result.tokens)
    /\ parse_result' = parse_from_tokens(parse_input')
    /\ pc' = "parsed"
    /\ UNCHANGED <<source, current, tokens, current_line, current_column,
                   tok_result>>

----------------------------------------------------------------------------
(* The inputs.                                                             *)

Seqs(A, n) == UNION { [1..k -> A] : k \in 0..n }

SourceAlphabet == {"a", "1", " ", "\n", NBSP, "=", "(", "@"}

AffixAlphabet == {"_", "1", "e", " "}

NumberAlphabet == {"-", "0", "x", "1", ".", "e"}

Words == KEYWORDS \cup { <<"t","r","u","e">>, <<"f","a","l","s","e">>,
                         <<"n","i","l">>, <<"i","f">> }

IfProgram ==
    <<"i","f"," ","t","r","u","e"," ","t","h","e","n"," ","x","(",")",
      " ","e","l","s","e"," ","y","(",")"," ","e","n","d">>

IfNameProgram ==
    <<"i","f"," ","c"," ","t","h","e","n"," ","x","(",")",
      " ","e","l","s","e"," ","y","(",")"," ","e","n","d">>

LocalNoNameProgram == <<"l","o","c","a","l"," ","=", " ","1">>

LocalProgram == <<"l","o","c","a","l"," ","x"," ","=", " ","1">>

SourcePrograms == {IfProgram, IfNameProgram, LocalNoNameProgram, LocalProgram,
                   <<"\n","\n","f","o","o">>, <<"@">>,
                   <<"f","(","1",","," ","2",")">>}

SourceInputs ==
    Seqs(SourceAlphabet, MaxLen)
    \cup { p \o w \o q : p \in Seqs(AffixAlphabet, MaxAffix), w \in Words,
                         q \in Seqs(AffixAlphabet, MaxAffix) }
    \cup Seqs(NumberAlphabet, MaxNumLen)
    \cup SourcePrograms

Id(c) == [kind |-> "Identifier", name |-> <<c>>]

Num(c) == [kind |-> "NumberLiteral", value |-> <<c>>]

StatementAlphabet ==
    {Sym("Local"), Id("x"), Sym("Equal"), Num("1"), Sym("Comma"),
     Sym("LeftParen"), Sym("RightParen")}

ExpressionAlphabet == {Id("a"), Num("1"), Sym("Plus"), Sym("Minus"), Sym("Star")}

TableAlphabet ==
    {Sym("LeftBrace"), Sym("RightBrace"), Id("x"), Sym("Equal"), Num("1"),
     Sym("Comma"), Sym("Semicolon")}

TokenPrograms ==
    { <<Sym("If"), [kind |-> "BoolLiteral", b |-> TRUE], Sym("Then"),
        Id("x"), Sym("LeftParen"), Sym("RightParen"), Sym("Else"),
        Id("y"), Sym("LeftParen"), Sym("RightParen"), Sym("End")>>,
      <<Sym("If"), Id("c"), Sym("Then"), Sym("ElseIf"), Id("d"), Sym("Then"),
        Sym("Else"), Sym("End"), Sym("End")>>,
      <<Sym("For"), Id("i"), Sym("Equal"), Num("1"), Sym("Comma"), Num("9"),
        Sym("Do"), Sym("End")>>,
      <<Sym("For"), Id("i"), Sym("Equal"), Num("1"), Sym("Comma"), Num("9"),
        Sym("Comma"), Num("2"), Sym("Do"), Id("f"), Sym("LeftParen"),
        Sym("RightParen"), Sym("End"), Sym("Semicolon")>>,
      <<Sym("While"), Sym("Not"), Id("a"), Sym("Do"), Sym("End")>>,
      <<Sym("Repeat"), Sym("Until"), Sym("Hash"), Id("a")>>,
      <<Sym("Local"), Sym("Function"), Id("f"), Sym("LeftParen"), Id("a"),
        Sym("Comma"), Id("b"), Sym("RightParen"), Sym("End")>>,
      <<Sym("While"), Id("x"), Sym("Do"), Sym("Local"), Sym("Equal"), Num("1"),
        Sym("End")>>,
      <<Id("f"), Sym("LeftParen"), Sym("RightParen"), Sym("Plus"),
        Sym("LeftParen"), Id("a"), Sym("RightParen"), Sym("Caret"), Num("2"),
        Sym("TwoDots"), Sym("LeftBrace"), Sym("RightBrace"), Sym("Slash"),
        Id("b")>>,
      <<Sym("Not"), Sym("Minus"), Id("a"), Sym("Star"), Num("2"), Sym("Plus"),
        Id("b")>>,
      <<Sym("LeftBrace"), Id("f"), Sym("LeftParen"), Sym("RightParen"),
        Sym("RightBrace")>>,
      <<Sym("LeftBrace"), Sym("LeftBracket"), Num("1"), Sym("RightBracket"),
        Sym("Equal"), Id("a"), Sym("Semicolon"), Id("k"), Sym("Equal"),
        Sym("LeftParen"), Num("2"), Sym("RightParen"), Sym("Comma"),
        Sym("RightBrace")>>,
      <<Id("f"), Sym("LeftParen"), Num("1"), Sym("Comma"), Sym("RightParen")>>,
      <<Sym("For"), Id("i"), Sym("Equal"), Num("1"), Sym("Comma"), Num("9"),
        Sym("End")>>,
      <<Id("f"), Sym("LeftParen"), Sym("RightParen"), Id("g"), Sym("LeftParen"),
        Sym("RightParen")>>,
      <<Id("f"), Sym("LeftParen"), Num("1"), Sym("Comma"), Num("2"),
        Sym("RightParen")>>,
      <<Sym("Function"), Id("f"), Sym("LeftParen"), Id("a"), Sym("Comma"),
        Sym("RightParen"), Sym("End")>>,
      <<Sym("Local"), Sym("Function"), Id("f"), Sym("LeftParen"),
        Sym("RightParen"), Sym("End")>>,
      <<Sym("Local"), Id("x"), Sym("Equal"), Id("f"), Sym("LeftParen"),
        Sym("Minus"), Sym("LeftParen"), Num("1"), Sym("RightParen"),
        Sym("Comma"), Sym("LeftBrace"), Id("k"), Sym("Equal"), Id("g"),
        Sym("LeftParen"), Sym("RightParen"), Sym("RightBrace"),
        Sym("RightParen")>> }

TokenInputs ==
    Seqs(StatementAlphabet, MaxTokens)
    \cup Seqs(ExpressionAlphabet, MaxExprTokens)
    \cup Seqs(TableAlphabet, MaxTokens)
    \cup TokenPrograms

----------------------------------------------------------------------------
(* The specifications.  Spec: a source is tokenized, and parsed when it    *)
(* tokenized.  SpecParse: a rule of the parser is applied to a token       *)
(* sequence.                                                               *)

NoResult == [status |-> "none"]

Init ==
    /\ source \in SourceInputs
    /\ current = source
    /\ tokens = <<>>
    /\ current_line = 1
    /\ current_column = 1
    /\ tok_result = NoResult
    /\ parse_input = <<>>
    /\ parse_result = NoResult
    /\ pc = "loop"

Next == TokenizeLoop \/ TokenizeReturn \/ ParseSource

Spec == Init /\ [][Next]_vars

InitParse ==
    /\ source = <<>>
    /\ current = <<>>
    /\ tokens = <<>>
    /\ current_line = 1
    /\ current_column = 1
    /\ tok_result = NoResult
    /\ parse_input \in TokenInputs
    /\ parse_result = NoResult
    /\ pc = "tokens"

CallParseFromTokens ==
    /\ pc = "tokens"
    /\ parse_result' = parse_from_tokens(parse_input)
    /\ pc' = "parse_from_tokens"
    /\ UNCHANGED <<source, current, tokens, current_line, current_column,
                   tok_result, parse_input>>

CallParseExpression ==
    /\ pc = "tokens"
    /\ parse_result' = ParseExpression(Parser, NewParseState(parse_input))
    /\ pc' = "ParseExpression"
    /\ UNCHANGED <<source, current, tokens, current_line, current_column,
                   tok_result, parse_input>>

CallParseTableLiteral ==
    /\ pc = "tokens"
    /\ parse_result' = ParseTableLiteral(Parser, NewParseState(parse_input))
    /\ pc' = "ParseTableLiteral"
    /\ UNCHANGED <<source, current, tokens, current_line, current_column,
                   tok_result, parse_input>>

CallParseStatement ==
    /\ pc = "tokens"
    /\ parse_result' = ParseStatement(Parser, NewParseState(parse_input))
    /\ pc' = "ParseStatement"
    /\ UNCHANGED <<source, current, tokens, current_line, current_column,
                   tok_result, parse_input>>

NextParse ==
    \/ CallParseFromTokens
    \/ CallParseStatement
    \/ CallParseExpression
    \/ CallParseTableLiteral

SpecParse == InitParse /\ [][NextParse]_vars

----------------------------------------------------------------------------
(* What the claims about the tokenizer speak of.                           *)

\* The source text a token matched.
TokenText(kind) ==
    CASE kind.tag \in {"Keyword", "Operator", "Identifier", "NumberLiteral"} -> kind.s
      [] kind.tag = "BoolLiteral" ->
             IF kind.b THEN <<"t","r","u","e">> ELSE <<"f","a","l","s","e">>
      [] kind.tag = "NilLiteral" -> <<"n","i","l">>
      [] kind.tag = "OpenParen" -> <<"(">>
      [] kind.tag = "CloseParen" -> <<")">>

\* Each token's leading whitespace followed by its text, in token order.
RECURSIVE Concat(_)
Concat(toks) ==
    IF toks = <<>> THEN <<>>
    ELSE Head(toks).whitespace \o TokenText(Head(toks).kind) \o Concat(Tail(toks))

\* The number of characters of the source before the first character of
\* token i.
TokenOffset(toks, i) == Len(Concat(Take(toks, i - 1))) + Len(toks[i].whitespace)

Newlines(s) == Cardinality({i \in 1..Len(s) : s[i] = "\n"})

\* The number of characters of s after its last newline (all of s when it
\* has none).
CharsAfterLastNewline(s) ==
    Len(s) - (IF Newlines(s) = 0 THEN 0
              ELSE CHOOSE i \in 1..Len(s) :
                       s[i] = "\n" /\ \A j \in (i + 1)..Len(s) : s[j] # "\n")

\* The number of characters before the first character, whitespace skipped,
\* at which no token pattern matches; Len(s) when there is none.
RECURSIVE FirstUnmatched(_)
FirstUnmatched(s) ==
    LET w == RunLength(s, WhitespaceChar)
        r == Drop(s, w)
        n == IF PATTERN_IDENTIFIER(r) > 0 THEN PATTERN_IDENTIFIER(r)
             ELSE IF PATTERN_OPERATOR(r) > 0 THEN PATTERN_OPERATOR(r)
             ELSE IF PATTERN_NUMBER_LITERAL(r) > 0 THEN PATTERN_NUMBER_LITERAL(r)
             ELSE IF PATTERN_OPEN_PAREN(r) > 0 THEN 1
             ELSE PATTERN_CLOSE_PAREN(r)
    IN IF r = <<>> \/ n = 0 THEN w
       ELSE w + n + FirstUnmatched(Drop(r, n))

\* C1: for every input on which tokenize returns Ok, each token's leading
\* whitespace followed by its matched text, concatenated in token order, is
\* exactly the input (the whitespace after the last token included).
C1_Reconstructs ==
    (pc = "tokenized" /\ tok_result.status = "Ok")
        => Concat(tok_result.tokens) = source

\* C2: every emitted token's line is 1 plus the number of newlines of the
\* source before its first character, and its column is 1 plus the number
\* of characters between the last such newline (or the start of the source)
\* and its first character.
C2_PositionCountsCharacters ==
    \A i \in 1..Len(tokens) :
        LET before == Take(source, TokenOffset(tokens, i))
        IN /\ tokens[i].line = 1 + Newlines(before)
           /\ tokens[i].column = 1 + CharsAfterLastNewline(before)

\* C3: tokenize returns Ok exactly when the whole input is consumed by
\* whitespace and token matches; otherwise it returns UnknownSequence, whose
\* remainder is the input from the first character no pattern matches and
\* whose line and column are the 1-based position of that character.
C3_UnknownSequenceAtFirstUnmatched ==
    pc = "tokenized" =>
        LET k == FirstUnmatched(source)
            before == Take(source, k)
        IN /\ tok_result.status = "Ok" <=> k = Len(source)
           /\ tok_result.status # "Ok" =>
                 /\ tok_result.status = "UnknownSequence"
                 /\ tok_result.remainder = Drop(source, k)
                 /\ tok_result.line = 1 + Newlines(before)
                 /\ tok_result.column = 1 + CharsAfterLastNewline(before)

IdentifierTags == {"Keyword", "BoolLiteral", "NilLiteral", "Identifier"}

\* C4: a token whose text starts as an identifier is the maximal run of
\* identifier characters at its place in the source; it is a Keyword exactly
\* when that whole text is a reserved word, a BoolLiteral exactly when it is
\* true or false (with that value), NilLiteral exactly when it is nil, and
\* an Identifier otherwise.
C4_KeywordOnlyWholeMatch ==
    \A i \in 1..Len(tokens) :
        LET kind == tokens[i].kind
            text == TokenText(kind)
            off == TokenOffset(tokens, i)
            after == off + Len(text)
        IN (kind.tag \in IdentifierTags \/ source[off + 1] \in IdStart) =>
              /\ kind.tag \in IdentifierTags
              /\ text = SubSeq(source, off + 1, after)
              /\ text[1] \in IdStart
              /\ \A j \in 1..Len(text) : text[j] \in IdChar
              /\ after < Len(source) => source[after + 1] \notin IdChar
              /\ kind.tag = "Keyword" <=> text \in KEYWORDS
              /\ kind.tag = "BoolLiteral" <=>
                     text \in {<<"t","r","u","e">>, <<"f","a","l","s","e">>}
              /\ kind.tag = "BoolLiteral" => (kind.b <=> text = <<"t","r","u","e">>)
              /\ kind.tag = "NilLiteral" <=> text = <<"n","i","l">>

\* "local _" has tokenized to Keyword(local), Identifier(_), and so has a
\* reserved word followed by an identifier character to one Identifier.
C4_Witness ==
    /\ pc = "tokenized"
    /\ source = <<"l","o","c","a","l"," ","_">>
    /\ Len(tokens) = 2
    /\ tokens[1].kind = [tag |-> "Keyword", s |-> <<"l","o","c","a","l">>]
    /\ tokens[2].kind = [tag |-> "Identifier", s |-> <<"_">>]

IsDigits(s) == s # <<>> /\ \A i \in 1..Len(s) : s[i] \in Digit

IsHexDigits(s) == s # <<>> /\ \A i \in 1..Len(s) : s[i] \in HexDigit

\* digits, or digits (possibly none) `.` digits
IsMantissa(s) ==
    \/ IsDigits(s)
    \/ \E k \in 1..Len(s) :
          /\ s[k] = "."
          /\ k > 1 => IsDigits(Take(s, k - 1))
          /\ IsDigits(Drop(s, k))

\* e or E, an optional `-`, digits
IsExponent(s) ==
    /\ Len(s) >= 2
    /\ s[1] \in {"e", "E"}
    /\ IsDigits(Tail(s)) \/ (s[2] = "-" /\ IsDigits(Drop(s, 2)))

\* A number literal: an optional `-`, then 0x and hexadecimal digits, or a
\* decimal mantissa and an optional exponent.
IsNumberLiteral(s) ==
    LET u == IF s # <<>> /\ s[1] = "-" THEN Tail(s) ELSE s
    IN \/ Len(u) >= 3 /\ u[1] = "0" /\ u[2] = "x" /\ IsHexDigits(Drop(u, 2))
       \/ IsMantissa(u)
       \/ \E k \in 1..Len(u) : IsMantissa(Take(u, k)) /\ IsExponent(Drop(u, k))

\* C5: an input that is one number literal tokenizes to exactly one
\* NumberLiteral token whose text is the input; a leading `-` is part of it.
C5_NumberLiteralOneToken ==
    (pc = "tokenized" /\ IsNumberLiteral(source)) =>
        /\ tok_result.status = "Ok"
        /\ Len(tok_result.tokens) = 1
        /\ tok_result.tokens[1].kind = [tag |-> "NumberLiteral", s |-> source]

\* A signed literal with an exponent has tokenized to one token.
C5_Witness ==
    /\ pc = "tokenized"
    /\ source = <<"-","1","e","-","1">>
    /\ IsNumberLiteral(source)
    /\ tok_result.status = "Ok"
    /\ Len(tok_result.tokens) = 1

----------------------------------------------------------------------------
(* What the claims about the parser speak of.                              *)

LeftoverMessage == "A token was left at the end of the stream"

\* The number of tokens the statements of a chunk stand for is not kept in
\* the tree; the cursor after the top-level Chunk is.
TopLevelChunk == ParseChunk(Parser, NewParseState(parse_input))

\* C6: parse_from_tokens returns Ok(chunk), the Chunk parsed from position
\* 0, only when the cursor after that Chunk is at the end of the tokens; when
\* a token remains it returns the error that names the token at the cursor,
\* and at that token no statement rule matches.
C6_OkOnlyAtEnd ==
    pc = "parse_from_tokens" =>
        LET c == TopLevelChunk
            k == c.state.position
        IN /\ c.ok
           /\ parse_result.status = "Ok" <=> k = Len(parse_input)
           /\ parse_result.status = "Ok" => parse_result.chunk = c.value
           /\ k < Len(parse_input) =>
                 /\ parse_result.status = "Err"
                 /\ parse_result.message = LeftoverMessage
                 /\ parse_result.token = Some(parse_input[k + 1])
                 /\ ~ParseStatement(Parser, c.state).ok

\* A call statement was parsed and the `=` after it is reported as left.
C6_Witness ==
    /\ pc = "parse_from_tokens"
    /\ parse_input = <<Id("x"), Sym("LeftParen"), Sym("RightParen"), Sym("Equal")>>
    /\ parse_result.status = "Err"
    /\ parse_result.token = Some(Sym("Equal"))
    /\ Len(TopLevelChunk.value.statements) = 1

\* C7: the tokens of "if true then x() else y() end" parse to a Chunk of one
\* IfStatement whose condition is the boolean literal true, whose body is
\* the call x(), whose elseif list is empty and whose else body is the one
\* call y().
C7_IfTrueParses ==
    (pc = "parsed" /\ source = IfProgram) =>
        /\ parse_result.status = "Ok"
        /\ Len(parse_result.chunk.statements) = 1
        /\ LET st == parse_result.chunk.statements[1]
               Call(f) == [tag |-> "FunctionCall",
                           value |-> [name_expression |->
                                          [tag |-> "Name", value |-> <<f>>],
                                      arguments |-> <<>>]]
           IN /\ st.tag = "IfStatement"
              /\ st.value.condition = [tag |-> "Bool", value |-> TRUE]
              /\ st.value.body = [statements |-> <<Call("x")>>]
              /\ st.value.else_if_branches = <<>>
              /\ st.value.else_branch = Some([statements |-> <<Call("y")>>])

\* The first tokens of the statements: the reserved words a statement rule
\* matches first.
StatementStart == {Sym("Local"), Sym("For"), Sym("If"), Sym("While"),
                   Sym("Repeat"), Sym("Function")}

\* C8: when a statement rule matched its first token and the statement is
\* malformed, the rule fails softly (the top-level Chunk still parses, up to
\* that token), and parse_from_tokens produces no Chunk and fails with the
\* leftover-token error naming that first token, not with a diagnostic of
\* the rule; so do the tokens of "local = 1", naming `local`.
C8_MalformedStatementIsLeftover ==
    pc = "parse_from_tokens" =>
        /\ TopLevelChunk.ok
        /\ LET k == TopLevelChunk.state.position
           IN (k < Len(parse_input) /\ parse_input[k + 1] \in StatementStart) =>
                 /\ ~ParseStatement(Parser,
                                    advance(NewParseState(parse_input), k)).ok
                 /\ parse_result = [status |-> "Err",
                                    message |-> LeftoverMessage,
                                    token |-> Some(parse_input[k + 1])]

\* The tokens of "local = 1" were refused with the error naming `local`.
C8_Witness ==
    /\ pc = "parse_from_tokens"
    /\ parse_input = <<Sym("Local"), Sym("Equal"), Num("1")>>
    /\ ParseSymbol("Local", NewParseState(parse_input)).ok
    /\ parse_result = [status |-> "Err", message |-> LeftoverMessage,
                       token |-> Some(Sym("Local"))]

BinaryOperator ==
    [Plus |-> "Add", Minus |-> "Subtract", Star |-> "Multiply",
     Slash |-> "Divide", Caret |-> "Exponent", TwoDots |-> "Concat"]

IsValueToken(t) == t.kind \in {"Identifier", "NumberLiteral"}

IsBinaryOperatorToken(t) == t.kind = "Symbol" /\ t.symbol \in DOMAIN BinaryOperator

\* v1 op1 v2 ... opn v(n+1), every value one token, n >= 0.
IsOperatorChain(toks) ==
    /\ Len(toks) % 2 = 1
    /\ \A i \in 1..Len(toks) :
          IF i % 2 = 1 THEN IsValueToken(toks[i])
          ELSE IsBinaryOperatorToken(toks[i])

ValueOf(t) ==
    IF t.kind = "Identifier" THEN [tag |-> "Name", value |-> t.name]
    ELSE [tag |-> "Number", value |-> t.value]

\* The tree that nests an operator chain to the right.
RECURSIVE RightNested(_)
RightNested(toks) ==
    IF Len(toks) = 1 THEN ValueOf(toks[1])
    ELSE [tag |-> "BinaryOp",
          value |-> [operator |-> BinaryOperator[toks[2].symbol],
                     left |-> ValueOf(toks[1]),
                     right |-> RightNested(Drop(toks, 2))]]

\* No BinaryOp of the tree has a BinaryOp or a UnaryOp as left operand.
RECURSIVE LeftOperandsAreValues(_)
LeftOperandsAreValues(e) ==
    CASE e.tag = "BinaryOp" ->
             /\ e.value.left.tag \notin {"BinaryOp", "UnaryOp"}
             /\ LeftOperandsAreValues(e.value.left)
             /\ LeftOperandsAreValues(e.value.right)
      [] e.tag = "UnaryOp" -> LeftOperandsAreValues(e.value.argument)
      [] e.tag = "ParenExpression" -> LeftOperandsAreValues(e.value)
      [] e.tag = "FunctionCall" ->
             \A i \in 1..Len(e.value.arguments) :
                 LeftOperandsAreValues(e.value.arguments[i])
      [] e.tag = "Table" ->
             \A i \in 1..Len(e.value.items) :
                 LeftOperandsAreValues(e.value.items[i].value)
      [] OTHER -> TRUE

UnaryOperator == [Minus |-> "Negate", Hash |-> "Length", Not |-> "BooleanNot"]

\* C9: ParseExpression nests every chain v1 op1 v2 ... opn v(n+1) to the
\* right whatever the operators, the left operand of every BinaryOp being a
\* Value; and a leading unary operator takes the parse of all that follows
\* it as its operand.
C9_BinaryNestsRight ==
    pc = "ParseExpression" =>
        /\ parse_result.ok => LeftOperandsAreValues(parse_result.value)
        /\ IsOperatorChain(parse_input) =>
              /\ parse_result.ok
              /\ parse_result.state.position = Len(parse_input)
              /\ parse_result.value = RightNested(parse_input)
        /\ (/\ parse_input # <<>>
            /\ parse_input[1].kind = "Symbol"
            /\ parse_input[1].symbol \in DOMAIN UnaryOperator) =>
              LET rest == ParseExpression(Parser, NewParseState(Tail(parse_input)))
              IN /\ parse_result.ok <=> rest.ok
                 /\ parse_result.ok =>
                       /\ parse_result.state.position = rest.state.position + 1
                       /\ parse_result.value =
                              [tag |-> "UnaryOp",
                               value |-> [operator |->
                                              UnaryOperator[parse_input[1].symbol],
                                          argument |-> rest.value]]

\* a * 1 + a was parsed as a * (1 + a).
C9_Witness ==
    /\ pc = "ParseExpression"
    /\ parse_input = <<Id("a"), Sym("Star"), Num("1"), Sym("Plus"), Id("a")>>
    /\ parse_result.ok
    /\ parse_result.value.value.operator = "Multiply"
    /\ parse_result.value.value.right.tag = "BinaryOp"
    /\ parse_result.value.value.right.value.operator = "Add"

\* C10: a table literal whose one item is a value Expression with no key
\* (a bare Name and a FunctionCall included) is accepted, the item recorded
\* with its key absent.
C10_KeylessItemIsPositional ==
    (/\ pc = "ParseTableLiteral"
     /\ Len(parse_input) >= 3
     /\ parse_input[1] = Sym("LeftBrace")
     /\ parse_input[Len(parse_input)] = Sym("RightBrace")) =>
        LET item == SubSeq(parse_input, 2, Len(parse_input) - 1)
            e == ParseExpression(Parser, NewParseState(item))
        IN (e.ok /\ e.state.position = Len(item)) =>
              /\ parse_result.ok
              /\ parse_result.value.items = <<[key |-> None, value |-> e.value]>>

----------------------------------------------------------------------------
(* Trailing separators.                                                    *)

Separators == {Sym("Comma"), Sym("Semicolon")}

\* The tokens with `,` and `;` exchanged.
SwapSeparators(toks) ==
    [i \in 1..Len(toks) |->
        IF toks[i] = Sym("Comma") THEN Sym("Semicolon")
        ELSE IF toks[i] = Sym("Semicolon") THEN Sym("Comma")
        ELSE toks[i]]

\* C11: a table literal that parses still parses, to the same items, with
\* one `,` or one `;` added right after its last item, and `,` and `;` can
\* be exchanged at the separators of a table literal; a call-argument list and a
\* function-parameter list take no trailing `,`: no statement that parses
\* has consumed a `,` right before a `)`.
C11_TrailingSeparator ==
    /\ pc = "ParseTableLiteral" =>
          LET n == Len(parse_input)
              other == ParseTableLiteral(Parser,
                                         NewParseState(SwapSeparators(parse_input)))
              without == SubSeq(parse_input, 1, n - 2) \o <<Sym("RightBrace")>>
              r == ParseTableLiteral(Parser, NewParseState(without))
          IN /\ (\A i \in 1..n : parse_input[i] # Sym("LeftParen")) =>
                   /\ parse_result.ok <=> other.ok
                   /\ parse_result.ok =>
                         /\ parse_result.state.position = other.state.position
                         /\ parse_result.value = other.value
             /\ (/\ n >= 4
                 /\ parse_input[n] = Sym("RightBrace")
                 /\ parse_input[n - 1] \in Separators
                 /\ parse_input[n - 2] \notin Separators
                 /\ r.ok
                 /\ r.state.position = n - 1
                 /\ r.value.items # <<>>) =>
                   /\ parse_result.ok
                   /\ parse_result.state.position = n
                   /\ parse_result.value = r.value
    /\ (pc = "ParseStatement" /\ parse_result.ok) =>
          \A i \in 1..(parse_result.state.position - 1) :
              ~(parse_input[i] = Sym("Comma")
                /\ parse_input[i + 1] = Sym("RightParen"))

\* { 1 ; } was parsed to a table of the one item 1.
C11_Witness ==
    /\ pc = "ParseTableLiteral"
    /\ parse_input = <<Sym("LeftBrace"), Num("1"), Sym("Semicolon"),
                       Sym("RightBrace")>>
    /\ parse_result.ok
    /\ parse_result.state.position = 4
    /\ Len(parse_result.value.items) = 1

----------------------------------------------------------------------------
(* Soft failures and the cursor.                                           *)

\* The alternatives of a statement, in the order of ParseStatement.
StatementRules ==
    <<"LocalAssignment", "FunctionCall", "NumericFor", "IfStatement",
      "WhileLoop", "RepeatLoop", "FunctionDeclaration">>

StatementRule(i) == Rule("Parse" \o StatementRules[i])

\* C12: a rule that soft-fails hands no cursor back, whatever it matched, and
\* the next alternative starts where the failed one started: ParseStatement
\* at a position is the first of the statement rules that succeeds from
\* that same position, and fails softly when none does.
C12_SoftFailRestoresCursor ==
    pc = "ParseStatement" =>
        LET start == NewParseState(parse_input)
            matching == {i \in 1..Len(StatementRules) :
                            Parser[StatementRule(i), start].ok}
        IN /\ ~parse_result.ok => parse_result = NoMatch
           /\ parse_result.ok <=> matching # {}
           /\ parse_result.ok =>
                 LET first == CHOOSE i \in matching :
                                  \A j \in matching : i <= j
                     r == Parser[StatementRule(first), start]
                 IN parse_result =
                        Ok(r.state, [tag |-> StatementRules[first],
                                     value |-> r.value])

\* For the tokens of "local function f() end", ParseLocalAssignment matched
\* `local` and failed, and the statement is the function declaration parsed
\* from `local`.
C12_Witness ==
    /\ pc = "ParseStatement"
    /\ parse_input = <<Sym("Local"), Sym("Function"), Id("f"),
                       Sym("LeftParen"), Sym("RightParen"), Sym("End")>>
    /\ ParseSymbol("Local", NewParseState(parse_input)).ok
    /\ ~ParseLocalAssignment(Parser, NewParseState(parse_input)).ok
    /\ parse_result.ok
    /\ parse_result.state.position = 6
    /\ parse_result.value =
           [tag |-> "FunctionDeclaration",
            value |-> [local |-> TRUE, name |-> <<"f">>, parameters |-> <<>>,
                       body |-> [statements |-> <<>>]]]

----------------------------------------------------------------------------
(* Termination.                                                            *)

\* The rules that are entered again from inside themselves or that a
\* repetition applies: all of them but ParseChunk consume a token when they
\* succeed.
ConsumingRules ==
    {"ParseStatement", "ParseExpression", "ParseValue", "ParseParenExpression",
     "ParseLocalAssignment", "ParseFunctionCall", "ParseNumericFor",
     "ParseIfStatement", "ParseWhileLoop", "ParseRepeatLoop",
     "ParseFunctionDeclaration", "ParseTableKey", "ParseTableValue",
     "ParseTableLiteral", "ParseNumber", "ParseIdentifier", "ParseUnaryOp",
     "ParseBinaryOp"}

\* C13: parse_from_tokens returns on every token sequence, and the cursor
\* only moves forward and never past the end: from every position, a rule
\* that succeeds has consumed at least one token (ParseChunk at least
\* none), so a repetition consumes a token for each statement it collects
\* and a rule entered again from inside itself is entered at a later
\* position.
C13_CursorAdvances ==
    pc = "parse_from_tokens" =>
        /\ parse_result.status \in {"Ok", "Err"}
        /\ Len(TopLevelChunk.value.statements) <= TopLevelChunk.state.position
        /\ \A k \in 0..Len(parse_input) :
              LET at == advance(NewParseState(parse_input), k)
                  chunk == Parser[Rule("ParseChunk"), at]
              IN /\ chunk.ok
                 /\ chunk.state.position \in k..Len(parse_input)
                 /\ Len(chunk.value.statements) <= chunk.state.position - k
                 /\ \A name \in ConsumingRules :
                       LET r == Parser[Rule(name), at]
                       IN r.ok =>
                            r.state.position \in (k + 1)..Len(parse_input)

\* The two statements f() g() were parsed, the second from position 3, and
\* the repetition stopped at the end of the tokens.
C13_Witness ==
    /\ pc = "parse_from_tokens"
    /\ parse_input = <<Id("f"), Sym("LeftParen"), Sym("RightParen"), Id("g"),
                       Sym("LeftParen"), Sym("RightParen")>>
    /\ parse_result.status = "Ok"
    /\ Len(parse_result.chunk.statements) = 2
    /\ ParseStatement(Parser, NewParseState(parse_input)).state.position = 3
    /\ TopLevelChunk.state.position = 6

----------------------------------------------------------------------------
(* Hard failures.                                                          *)

AllRules == ConsumingRules \cup {"ParseChunk"}

\* C14: no rule fails hard: from every position every rule succeeds or
\* fails softly, the top-level ParseChunk succeeds, and parse_from_tokens
\* returns Ok(chunk) or the error of the token that was left, never "No
\* error reported" nor a message of a rule.
C14_NoHardFailure ==
    /\ pc = "parse_from_tokens" =>
          /\ TopLevelChunk.ok
          /\ \/ parse_result.status = "Ok"
             \/ /\ parse_result.status = "Err"
                /\ parse_result.message = LeftoverMessage
                /\ parse_result.token.some
          /\ \A k \in 0..Len(parse_input) : \A name \in AllRules :
                LET r == Parser[Rule(name),
                                advance(NewParseState(parse_input), k)]
                IN ~r.ok => r = NoMatch
    /\ pc \in {"ParseStatement", "ParseExpression", "ParseTableLiteral"} =>
          (~parse_result.ok => parse_result = NoMatch)

\* The tokens of "for i = 1, 9 end", where neither `,` nor `do` follows the
\* limit, were refused with the error of the token that was left, `for`.
C14_Witness ==
    /\ pc = "parse_from_tokens"
    /\ parse_input = <<Sym("For"), Id("i"), Sym("Equal"), Num("1"),
                       Sym("Comma"), Num("9"), Sym("End")>>
    /\ ParseNumericForStep(Parser, advance(NewParseState(parse_input), 6))
           = NoMatch
    /\ TopLevelChunk = Ok(NewParseState(parse_input), [statements |-> <<>>])
    /\ parse_result = [status |-> "Err", message |-> LeftoverMessage,
                       token |-> Some(Sym("For"))]

----------------------------------------------------------------------------
(* The nodes a parse produces.                                             *)

StatementKinds ==
    {"LocalAssignment", "FunctionCall", "NumericFor", "IfStatement",
     "WhileLoop", "RepeatLoop", "FunctionDeclaration"}

ExpressionKinds ==
    {"Number", "FunctionCall", "Name", "Table", "ParenExpression", "UnaryOp",
     "BinaryOp"}

RECURSIVE IsChunk(_), IsStatement(_), IsExpression(_), IsFunctionCall(_)
RECURSIVE IsTableLiteral(_)

\* Every node of the tree is of a kind of the parser, and the callee of
\* every call is a bare Name.
IsChunk(chunk) ==
    \A i \in 1..Len(chunk.statements) : IsStatement(chunk.statements[i])

IsExpressions(expressions) ==
    \A i \in 1..Len(expressions) : IsExpression(expressions[i])

IsFunctionCall(call) ==
    /\ call.name_expression.tag = "Name"
    /\ IsExpressions(call.arguments)

IsTableLiteral(table) ==
    \A i \in 1..Len(table.items) :
        /\ IsExpression(table.items[i].value)
        /\ table.items[i].key.some =>
              \/ table.items[i].key.value.tag = "Name"
              \/ /\ table.items[i].key.value.tag = "Expression"
                 /\ IsExpression(table.items[i].key.value.value)

IsExpression(e) ==
    /\ e.tag \in ExpressionKinds
    /\ CASE e.tag = "FunctionCall" -> IsFunctionCall(e.value)
         [] e.tag = "Table" -> IsTableLiteral(e.value)
         [] e.tag = "ParenExpression" -> IsExpression(e.value)
         [] e.tag = "UnaryOp" -> IsExpression(e.value.argument)
         [] e.tag = "BinaryOp" -> /\ IsExpression(e.value.left)
                                  /\ IsExpression(e.value.right)
         [] OTHER -> TRUE

IsStatement(s) ==
    /\ s.tag \in StatementKinds
    /\ CASE s.tag = "LocalAssignment" -> IsExpressions(s.value.values)
         [] s.tag = "FunctionCall" -> IsFunctionCall(s.value)
         [] s.tag = "NumericFor" ->
                /\ IsExpression(s.value.start)
                /\ IsExpression(s.value.end)
                /\ s.value.step.some => IsExpression(s.value.step.value)
                /\ IsChunk(s.value.body)
         [] s.tag = "IfStatement" ->
                /\ IsExpression(s.value.condition)
                /\ IsChunk(s.value.body)
                /\ \A i \in 1..Len(s.value.else_if_branches) :
                      /\ IsExpression(s.value.else_if_branches[i][1])
                      /\ IsChunk(s.value.else_if_branches[i][2])
                /\ s.value.else_branch.some =>
                      IsChunk(s.value.else_branch.value)
         [] s.tag \in {"WhileLoop", "RepeatLoop"} ->
                /\ IsExpression(s.value.condition)
                /\ IsChunk(s.value.body)
         [] OTHER -> IsChunk(s.value.body)

====
